---- MODULE Spec2Model ----
(***************************************************************************)
(* A model of the holo-wtf-api calendar parser (src/calendar/               *)
(* calendar_parser.rs) and of the index handler (src/main.rs).              *)
(*                                                                         *)
(* Text is modelled as a sequence of characters, each character a string.  *)
(* The three non-ASCII characters of the source are written by name:       *)
(* "yen" is U+00A5, "globe" is U+1F310, "chair" is U+1FA91, "ar3" is the    *)
(* Arabic-Indic digit three U+0663 (a Unicode decimal digit that is not an *)
(* ASCII digit), "nl" is a line feed and "bs" a backslash.                  *)
(***************************************************************************)
EXTENDS Integers, Sequences, FiniteSets, TLC

VARIABLES pc, arg, ret, now, requested_at, cursor, all_lives

vars == <<pc, arg, ret, now, requested_at, cursor, all_lives>>

(***************************************************************************)
(* Result<T, String>                                                        *)
(***************************************************************************)
Ok(v) == [ok |-> TRUE, val |-> v]

Err(e) == [ok |-> FALSE, err |-> e]

NoRet == [ok |-> FALSE, err |-> <<>>]

\* a let binding: `rest` applied to `value`, which is evaluated once
with(value, rest(_)) == CHOOSE result \in {rest(v) : v \in {value}} : TRUE

(***************************************************************************)
(* Characters and the str methods the parser calls.                         *)
(***************************************************************************)
UpperLetters == <<"A", "B", "C", "D", "E", "F", "G", "H", "I", "J", "K", "L", "M",
                  "N", "O", "P", "Q", "R", "S", "T", "U", "V", "W", "X", "Y", "Z">>

LowerLetters == <<"a", "b", "c", "d", "e", "f", "g", "h", "i", "j", "k", "l", "m",
                  "n", "o", "p", "q", "r", "s", "t", "u", "v", "w", "x", "y", "z">>

AsciiDigits == <<"0", "1", "2", "3", "4", "5", "6", "7", "8", "9">>

Range(f) == {f[i] : i \in DOMAIN f}

\* char::to_lowercase on the characters of the model's alphabet
to_lowercase_char(c) ==
    IF c \in Range(UpperLetters)
    THEN LowerLetters[CHOOSE i \in DOMAIN UpperLetters : UpperLetters[i] = c]
    ELSE c

\* str::to_lowercase
to_lowercase(s) == [i \in DOMAIN s |-> to_lowercase_char(s[i])]

\* the byte offsets at which pat occurs in s
find_all(s, pat) ==
    {i \in 1..(Len(s) - Len(pat) + 1) : SubSeq(s, i, i + Len(pat) - 1) = pat}

\* str::contains
contains(s, pat) == find_all(s, pat) # {}

\* char::is_whitespace on the characters of the model's alphabet
is_whitespace(c) == c \in {" ", "nl", "tab"}

\* str::trim
RECURSIVE trim_start(_)
trim_start(s) ==
    IF s # <<>> /\ is_whitespace(s[1]) THEN trim_start(Tail(s)) ELSE s

RECURSIVE trim_end(_)
trim_end(s) ==
    IF s # <<>> /\ is_whitespace(s[Len(s)])
    THEN trim_end(SubSeq(s, 1, Len(s) - 1))
    ELSE s

trim(s) == trim_end(trim_start(s))

(***************************************************************************)
(* get_price_from_string                                                    *)
(***************************************************************************)
I32_MAX == 2147483647

\* the regex class \d: every Unicode decimal digit
is_regex_digit(c) == c \in Range(AsciiDigits) \cup {"ar3"}

digit_value(c) == (CHOOSE i \in DOMAIN AsciiDigits : AsciiDigits[i] = c) - 1

\* str::parse::<i32> of a run of regex digits: -1 stands for Err(ParseIntError).
\* The accumulator is checked before each multiply-and-add, as checked_mul and
\* checked_add do, so no intermediate exceeds I32_MAX.
RECURSIVE parse_i32_from(_, _, _)
parse_i32_from(s, i, acc) ==
    IF i > Len(s) THEN acc
    ELSE IF s[i] \notin Range(AsciiDigits) THEN -1
    ELSE IF acc > (I32_MAX - digit_value(s[i])) \div 10 THEN -1
    ELSE parse_i32_from(s, i + 1, acc * 10 + digit_value(s[i]))

parse_i32(s) == IF Len(s) = 0 THEN -1 ELSE parse_i32_from(s, 1, 0)

Tbd == [tag |-> "Tbd"]

Free == [tag |-> "Free"]

Fixed(n) == [tag |-> "Fixed", amount |-> n]

MultiTier(n) == [tag |-> "MultiTier", amount |-> n]

PriceConversionFailed == <<"Price conversion failed">>

\* ^Y(\d+)$ : the captured digit run, or <<>> when the token does not match
single_tier_match(price) ==
    IF /\ Len(price) >= 2
       /\ price[1] = "yen"
       /\ \A i \in 2..Len(price) : is_regex_digit(price[i])
    THEN SubSeq(price, 2, Len(price))
    ELSE <<>>

\* ^Y(\d+)\+$
multi_tier_match(price) ==
    IF /\ Len(price) >= 3
       /\ price[1] = "yen"
       /\ price[Len(price)] = "+"
       /\ \A i \in 2..(Len(price) - 1) : is_regex_digit(price[i])
    THEN SubSeq(price, 2, Len(price) - 1)
    ELSE <<>>

\* A variant: the "free" test placed before the "tba"/"tbd" test.
get_price_from_string_free_first(price) ==
    IF contains(to_lowercase(price), <<"f", "r", "e", "e">>) THEN Ok(Free)
    ELSE IF \/ contains(to_lowercase(price), <<"t", "b", "a">>)
            \/ contains(to_lowercase(price), <<"t", "b", "d">>)
    THEN Ok(Tbd)
    ELSE IF single_tier_match(price) # <<>>
    THEN IF parse_i32(single_tier_match(price)) >= 0
         THEN Ok(Fixed(parse_i32(single_tier_match(price))))
         ELSE Err(PriceConversionFailed)
    ELSE IF multi_tier_match(price) # <<>>
    THEN IF parse_i32(multi_tier_match(price)) >= 0
         THEN Ok(MultiTier(parse_i32(multi_tier_match(price))))
         ELSE Err(PriceConversionFailed)
    ELSE Err(PriceConversionFailed)

get_price_from_string(price) ==
    IF \/ contains(to_lowercase(price), <<"t", "b", "a">>)
       \/ contains(to_lowercase(price), <<"t", "b", "d">>)
    THEN Ok(Tbd)
    ELSE IF contains(to_lowercase(price), <<"f", "r", "e", "e">>) THEN Ok(Free)
    ELSE IF single_tier_match(price) # <<>>
    THEN IF parse_i32(single_tier_match(price)) >= 0
         THEN Ok(Fixed(parse_i32(single_tier_match(price))))
         ELSE Err(PriceConversionFailed)
    ELSE IF multi_tier_match(price) # <<>>
    THEN IF parse_i32(multi_tier_match(price)) >= 0
         THEN Ok(MultiTier(parse_i32(multi_tier_match(price))))
         ELSE Err(PriceConversionFailed)
    ELSE Err(PriceConversionFailed)

(***************************************************************************)
(* Inputs: a text is a concatenation of at most MaxPieces pieces.           *)
(***************************************************************************)
MaxPieces == 3

RECURSIVE Concat(_)
Concat(ss) == IF ss = <<>> THEN <<>> ELSE Head(ss) \o Concat(Tail(ss))

\* every concatenation of at most n pieces of the tuple `pieces`
TextsOf(pieces, n) ==
    {Concat([i \in DOMAIN ix |-> pieces[ix[i]]]) : ix \in UNION {[1..m -> 1..Len(pieces)] : m \in 0..n}}

PricePieces ==
    << <<"yen">>, <<"1">>, <<"0">>, <<"+">>, <<"x">>, <<"ar3">>,
       <<"T", "b", "A">>, <<"t", "B", "D">>, <<"F", "r", "E", "e">>,
       <<"2", "1", "4", "7", "4", "8", "3", "6", "4">>, <<"7">>, <<"8">> >>

(***************************************************************************)
(* The call of one function on one input.                                   *)
(***************************************************************************)
InitCall(inputs) ==
    /\ pc = "call"
    /\ arg \in inputs
    /\ ret = NoRet
    /\ now = 0
    /\ requested_at = 0
    /\ cursor = 0
    /\ all_lives = <<>>

Return(name, value) ==
    /\ pc = "call"
    /\ pc' = name
    /\ ret' = value
    /\ UNCHANGED <<arg, now, requested_at, cursor, all_lives>>

PriceInit == InitCall(TextsOf(PricePieces, MaxPieces))

PriceCall ==
    /\ pc = "call"
    /\ Return("get_price_from_string", get_price_from_string(arg))

PriceSpec == PriceInit /\ [][PriceCall]_vars

(***************************************************************************)
(* C1: the price rules and their priority.                                  *)
(***************************************************************************)
\* the token holds `word` (given in lower case) in some letter case
Mentions(tok, word) ==
    \E i \in 1..(Len(tok) - Len(word) + 1) :
        \A j \in 1..Len(word) : to_lowercase_char(tok[i + j - 1]) = word[j]

IsDigitRun(s) == Len(s) >= 1 /\ \A i \in DOMAIN s : is_regex_digit(s[i])

\* the token is exactly the currency symbol followed by a digit run
IsSymbolDigits(tok) == Len(tok) >= 2 /\ tok[1] = "yen" /\ IsDigitRun(Tail(tok))

\* the token is exactly the currency symbol, a digit run and a trailing plus
IsSymbolDigitsPlus(tok) ==
    /\ Len(tok) >= 3
    /\ tok[1] = "yen"
    /\ tok[Len(tok)] = "+"
    /\ IsDigitRun(SubSeq(tok, 2, Len(tok) - 1))

RECURSIVE StripZeros(_)
StripZeros(s) == IF Len(s) > 1 /\ s[1] = "0" THEN StripZeros(Tail(s)) ELSE s

I32MaxDigits == <<"2", "1", "4", "7", "4", "8", "3", "6", "4", "7">>

\* s <= t for two digit runs of the same length
RECURSIVE DigitsLeq(_, _)
DigitsLeq(s, t) ==
    IF s = <<>> THEN TRUE
    ELSE IF digit_value(s[1]) < digit_value(t[1]) THEN TRUE
    ELSE IF digit_value(s[1]) > digit_value(t[1]) THEN FALSE
    ELSE DigitsLeq(Tail(s), Tail(t))

\* the run is written in ASCII digits and its value is at most 2^31 - 1
FitsI32(s) ==
    /\ \A i \in DOMAIN s : s[i] \in Range(AsciiDigits)
    /\ LET z == StripZeros(s)
       IN  \/ Len(z) < Len(I32MaxDigits)
           \/ Len(z) = Len(I32MaxDigits) /\ DigitsLeq(z, I32MaxDigits)

RECURSIVE Pow10(_)
Pow10(k) == IF k = 0 THEN 1 ELSE 10 * Pow10(k - 1)

RECURSIVE SumDigits(_, _)
SumDigits(s, i) ==
    IF i > Len(s) THEN 0
    ELSE digit_value(s[i]) * Pow10(Len(s) - i) + SumDigits(s, i + 1)

\* the decimal value of a run that FitsI32
DecimalValue(s) == SumDigits(StripZeros(s), 1)

DigitsOfSymbolDigits(tok) == Tail(tok)

DigitsOfSymbolDigitsPlus(tok) == SubSeq(tok, 2, Len(tok) - 1)

MentionsTbaOrTbd(tok) ==
    Mentions(tok, <<"t", "b", "a">>) \/ Mentions(tok, <<"t", "b", "d">>)

MentionsFree(tok) == Mentions(tok, <<"f", "r", "e", "e">>)

\* C1, as stated: the first applicable rule of (a) "tba"/"tbd" -> Tbd, (b) "free"
\* -> Free, (c) symbol+digits -> Fixed(digits), (d) symbol+digits+plus ->
\* MultiTier(digits) decides the result of every token; no rule -> failure.
C1_PriceRulesAsStated ==
    pc = "get_price_from_string" =>
        IF MentionsTbaOrTbd(arg) THEN ret = Ok(Tbd)
        ELSE IF MentionsFree(arg) THEN ret = Ok(Free)
        ELSE IF IsSymbolDigits(arg)
        THEN /\ ret.ok
             /\ ret.val.tag = "Fixed"
             /\ FitsI32(DigitsOfSymbolDigits(arg))
                    => ret.val.amount = DecimalValue(DigitsOfSymbolDigits(arg))
        ELSE IF IsSymbolDigitsPlus(arg)
        THEN /\ ret.ok
             /\ ret.val.tag = "MultiTier"
             /\ FitsI32(DigitsOfSymbolDigitsPlus(arg))
                    => ret.val.amount = DecimalValue(DigitsOfSymbolDigitsPlus(arg))
        ELSE ret = Err(PriceConversionFailed)

\* C1, amended: the same priority order, where rules (c) and (d) return the
\* amount only when the digit run is written in ASCII digits and fits the 32-bit
\* signed amount; a digit run that does not makes the call fail.
C1_PriceRules ==
    pc = "get_price_from_string" =>
        IF MentionsTbaOrTbd(arg) THEN ret = Ok(Tbd)
        ELSE IF MentionsFree(arg) THEN ret = Ok(Free)
        ELSE IF IsSymbolDigits(arg)
        THEN IF FitsI32(DigitsOfSymbolDigits(arg))
             THEN ret = Ok(Fixed(DecimalValue(DigitsOfSymbolDigits(arg))))
             ELSE ret = Err(PriceConversionFailed)
        ELSE IF IsSymbolDigitsPlus(arg)
        THEN IF FitsI32(DigitsOfSymbolDigitsPlus(arg))
             THEN ret = Ok(MultiTier(DecimalValue(DigitsOfSymbolDigitsPlus(arg))))
             ELSE ret = Err(PriceConversionFailed)
        ELSE ret = Err(PriceConversionFailed)

\* a token that holds "free" and "tba" at once has been classified Tbd
C1_Witness ==
    /\ pc = "get_price_from_string"
    /\ MentionsFree(arg)
    /\ Mentions(arg, <<"t", "b", "a">>)
    /\ ret = Ok(Tbd)

(***************************************************************************)
(* get_format_from_string                                                   *)
(***************************************************************************)
Online == [tag |-> "Online"]

Irl == [tag |-> "Irl"]

Both == [tag |-> "Both"]

LiveFormatConversionFailed == <<"Live format conversion failed">>

get_format_from_string(platform) ==
    IF contains(platform, <<"globe", "chair">>) THEN Ok(Both)
    ELSE IF contains(platform, <<"globe">>) THEN Ok(Online)
    ELSE IF contains(platform, <<"chair">>) THEN Ok(Irl)
    ELSE Err(LiveFormatConversionFailed)

FormatPieces == << <<"globe">>, <<"chair">>, <<" ">>, <<"/">>, <<"x">> >>

FormatInit == InitCall(TextsOf(FormatPieces, MaxPieces))

FormatCall ==
    /\ pc = "call"
    /\ Return("get_format_from_string", get_format_from_string(arg))

FormatSpec == FormatInit /\ [][FormatCall]_vars

\* the token holds the character c somewhere
HasMarker(tok, c) == \E i \in DOMAIN tok : tok[i] = c

\* C2: both markers present, in whatever order and with whatever between them ->
\* Both; only the online marker -> Online; only the seating marker -> Irl;
\* neither -> the format-unrecognized failure.
C2_FormatByMarkers ==
    pc = "get_format_from_string" =>
        ret = IF HasMarker(arg, "globe") /\ HasMarker(arg, "chair") THEN Ok(Both)
              ELSE IF HasMarker(arg, "globe") THEN Ok(Online)
              ELSE IF HasMarker(arg, "chair") THEN Ok(Irl)
              ELSE Err(LiveFormatConversionFailed)

(***************************************************************************)
(* get_platform_from_tag                                                    *)
(***************************************************************************)
Spwn == [tag |-> "Spwn"]

Youtube == [tag |-> "Youtube"]

Zan == [tag |-> "Zan"]

Zaiko == [tag |-> "Zaiko"]

Tba == [tag |-> "Tba"]

Niconico == [tag |-> "Niconico"]

Other == [tag |-> "Other"]

CategoryParsingFailed == <<"Calendar category parsing failed">>

get_platform_from_tag(tag_string) ==
    LET lowercased == to_lowercase(tag_string)
    IN  IF lowercased = <<"s", "p", "w", "n">> THEN Ok(Spwn)
        ELSE IF lowercased = <<"y", "o", "u", "t", "u", "b", "e">> THEN Ok(Youtube)
        ELSE IF lowercased = <<"z", "-", "a", "n">> THEN Ok(Zan)
        ELSE IF lowercased = <<"z", "a", "i", "k", "o">> THEN Ok(Zaiko)
        ELSE IF lowercased = <<"t", "b", "a">> THEN Ok(Tba)
        ELSE IF lowercased = <<"n", "i", "c", "o", " ", "n", "i", "c", "o", " ", "d", "o", "u", "g", "a">> THEN Ok(Niconico)
        ELSE IF lowercased = <<"o", "t", "h", "e", "r">> THEN Ok(Other)
        ELSE Err(CategoryParsingFailed)

TagPieces ==
    << <<" ">>, <<"Z", "-", "a", "N">>, <<"z", "-", "a", "n">>, <<"Z", "-", "A", "N">>, <<"S", "P", "W", "N">>, <<"Y", "o", "u", "T", "u", "b", "e">>, <<"Z", "A", "I", "K", "O">>, <<"T", "B", "A">>,
       <<"N", "i", "c", "o", " ", "N", "i", "c", "o", " ", "D", "o", "u", "g", "a">>, <<"O", "t", "h", "e", "r">>, <<"S", "o", "m", "e">>, <<"x">> >>

PlatformInit == InitCall(TextsOf(TagPieces, MaxPieces))

PlatformCall ==
    /\ pc = "call"
    /\ Return("get_platform_from_tag", get_platform_from_tag(arg))

PlatformSpec == PlatformInit /\ [][PlatformCall]_vars

\* the seven-entry vocabulary, each entry with its Platform
Vocabulary ==
    { <<<<"s", "p", "w", "n">>, Spwn>>, <<<<"y", "o", "u", "t", "u", "b", "e">>, Youtube>>, <<<<"z", "-", "a", "n">>, Zan>>,
      <<<<"z", "a", "i", "k", "o">>, Zaiko>>, <<<<"t", "b", "a">>, Tba>>, <<<<"n", "i", "c", "o", " ", "n", "i", "c", "o", " ", "d", "o", "u", "g", "a">>, Niconico>>,
      <<<<"o", "t", "h", "e", "r">>, Other>> }

\* C3: a tag that equals a vocabulary entry after lowercasing and trimming gives
\* that entry's Platform; every other tag fails.
C3_PlatformLowercasedAndTrimmed ==
    pc = "get_platform_from_tag" =>
        LET key == trim(to_lowercase(arg))
        IN  IF \E v \in Vocabulary : v[1] = key
            THEN \E v \in Vocabulary : v[1] = key /\ ret = Ok(v[2])
            ELSE ret = Err(CategoryParsingFailed)

(***************************************************************************)
(* get_title_price_and_platform_from_summary                                *)
(***************************************************************************)
SummaryParsingFailed(summary) ==
    <<"Calendar event summary parsing failed, the text is">> \o summary

\* Regex ^\((.*)\)\((.*)\)(.+)$ : the pairs <<p, q>> at which the two literal
\* ")(" and ")" can stand. The dot matches every character but a line feed.
first_match_splits(summary) ==
    IF \/ Len(summary) < 5
       \/ summary[1] # "("
       \/ \E i \in DOMAIN summary : summary[i] = "nl"
    THEN {}
    ELSE {pq \in (2..(Len(summary) - 3)) \X (4..(Len(summary) - 1)) :
            /\ summary[pq[1]] = ")"
            /\ summary[pq[1] + 1] = "("
            /\ pq[2] >= pq[1] + 2
            /\ summary[pq[2]] = ")"}

Max(S) == CHOOSE x \in S : \A y \in S : y <= x

Min(S) == CHOOSE x \in S : \A y \in S : x <= y

\* Both stars are greedy: the first group is as long as a match allows, then
\* the second. The captures are <<group 1, group 2, group 3>>, <<>> for no match.
first_match_captures(summary) ==
    LET splits == first_match_splits(summary)
    IN  IF splits = {} THEN <<>>
        ELSE LET p == Max({pq[1] : pq \in splits})
                 q == Max({pq[2] : pq \in {x \in splits : x[1] = p}})
             IN  << SubSeq(summary, 2, p - 1),
                    SubSeq(summary, p + 2, q - 1),
                    SubSeq(summary, q + 1, Len(summary)) >>

get_title_price_and_platform_from_summary(summary) ==
    LET matched == first_match_captures(summary)
    IN  IF matched = <<>> THEN Err(SummaryParsingFailed(summary))
        ELSE LET price_parsed == get_price_from_string(matched[1])
                 format_parsed == get_format_from_string(matched[2])
             IN  IF ~price_parsed.ok THEN price_parsed
                 ELSE IF ~format_parsed.ok THEN format_parsed
                 ELSE Ok([title |-> trim(matched[3]),
                          jpy_price |-> price_parsed.val,
                          format |-> format_parsed.val])

MaxSummaryPieces == 4

SummaryPieces ==
    << <<"L">>, <<"(", "T", "B", "A", ")">>, <<"(", "globe", ")">>,
       <<"(", "yen", "1", ")">>, <<"(", "x", ")">>, <<" ">>, <<"(">>, <<")">> >>

SummaryInit == InitCall(TextsOf(SummaryPieces, MaxSummaryPieces))

SummaryCall ==
    /\ pc = "call"
    /\ Return("get_title_price_and_platform_from_summary",
              get_title_price_and_platform_from_summary(arg))

SummarySpec == SummaryInit /\ [][SummaryCall]_vars

IsParen(c) == c \in {"(", ")"}

\* the index of the first ")" at or after i, 0 when there is none
FirstClose(s, i) ==
    IF \E k \in i..Len(s) : s[k] = ")"
    THEN Min({k \in i..Len(s) : s[k] = ")"})
    ELSE 0

\* The summary is exactly "(" group ")" "(" group ")" text: no parenthesis
\* inside either group, and a non-empty text that opens no third group.
\* ShapeEnds gives the indices of the two closing parentheses, <<>> otherwise.
ShapeEnds(s) ==
    LET a == FirstClose(s, 2)
        b == FirstClose(s, a + 2)
    IN  IF /\ Len(s) >= 5
           /\ s[1] = "("
           /\ a > 0
           /\ \A k \in 2..(a - 1) : ~IsParen(s[k])
           /\ a + 1 <= Len(s)
           /\ s[a + 1] = "("
           /\ b > 0
           /\ \A k \in (a + 2)..(b - 1) : ~IsParen(s[k])
           /\ b < Len(s)
           /\ s[b + 1] # "("
        THEN <<a, b>>
        ELSE <<>>

\* C4: a summary that is not two non-nested parenthesized groups followed by
\* non-empty text fails with the structure-mismatch error; one that is has its
\* first group classified as price, its second as format, and its text, trimmed,
\* returned as the title.
C4_SummarySplitByShape ==
    pc = "get_title_price_and_platform_from_summary" =>
        LET ends == ShapeEnds(arg)
        IN  IF ends = <<>> THEN ret = Err(SummaryParsingFailed(arg))
            ELSE LET price == get_price_from_string(SubSeq(arg, 2, ends[1] - 1))
                     format == get_format_from_string(
                                   SubSeq(arg, ends[1] + 2, ends[2] - 1))
                 IN  ret = IF ~price.ok THEN price
                           ELSE IF ~format.ok THEN format
                           ELSE Ok([title |-> trim(SubSeq(arg, ends[2] + 1, Len(arg))),
                                    jpy_price |-> price.val,
                                    format |-> format.val])

(***************************************************************************)
(* remove_form_link_from_description_and_trim                               *)
(***************************************************************************)
FormLinkHead == <<"E", "v", "e", "n", "t", " ", "S", "u", "g", "g", "e", "s", "t", "i", "o", "n", " ", "S", "u", "b", "m", "i", "s", "s", "i", "o", "n", " ", "f", "o", "r", "m", ":", " ">>

FormLinkTail == <<"h", "t", "t", "p", "s", ":", "/", "/", "f", "o", "r", "m", "s", ".", "g", "l", "e", "/", "t", "Z", "w", "Y", "1", "M", "1", "9", "Y", "U", "g", "U", "h", "n", "9", "i", "6">>

FormLink == FormLinkHead \o FormLinkTail

starts_with_at(s, i, pat) ==
    i + Len(pat) - 1 <= Len(s) /\ SubSeq(s, i, i + Len(pat) - 1) = pat

\* str::replace(pat, ""): the occurrences are found in one scan from the left,
\* each search resuming after the previous occurrence; the result is not
\* scanned again.
RECURSIVE remove_from(_, _, _)
remove_from(s, i, pat) ==
    LET found == {k \in i..Len(s) : starts_with_at(s, k, pat)}
    IN  IF found = {} THEN SubSeq(s, i, Len(s))
        ELSE SubSeq(s, i, Min(found) - 1) \o remove_from(s, Min(found) + Len(pat), pat)

\* str::trim_end_matches(pat): the suffix is removed as often as it occurs
RECURSIVE trim_end_matches(_, _)
trim_end_matches(s, pat) ==
    IF Len(s) >= Len(pat) /\ SubSeq(s, Len(s) - Len(pat) + 1, Len(s)) = pat
    THEN trim_end_matches(SubSeq(s, 1, Len(s) - Len(pat)), pat)
    ELSE s

remove_form_link_from_description_and_trim(description) ==
    LET description_removed == remove_from(description, 1, FormLink)
    IN  trim_end_matches(description_removed, <<"bs", "n">>)

SanitizePieces ==
    << FormLink, FormLinkHead, FormLinkTail, <<"bs", "n">>, <<"nl">>, <<" ">>,
       <<"L", "i", "v", "e">> >>

SanitizeInit == InitCall(TextsOf(SanitizePieces, MaxPieces))

SanitizeCall ==
    /\ pc = "call"
    /\ Return("remove_form_link_from_description_and_trim",
              Ok(remove_form_link_from_description_and_trim(arg)))

SanitizeSpec == SanitizeInit /\ [][SanitizeCall]_vars

\* C5: the sanitizer's output is a fixed point of the sanitizer and never holds
\* the boilerplate sentence.
C5_SanitizerIdempotent ==
    pc = "remove_form_link_from_description_and_trim" =>
        /\ remove_form_link_from_description_and_trim(ret.val) = ret.val
        /\ ~contains(ret.val, FormLink)

(***************************************************************************)
(* Regex building blocks. A position is an index into the text; a matcher   *)
(* returns the position after what it matched, 0 when it does not match.    *)
(***************************************************************************)
AsciiAlnum == Range(UpperLetters) \cup Range(LowerLetters) \cup Range(AsciiDigits)

\* \w, and what \b looks at
is_word(c) == c \in AsciiAlnum \cup {"_"}

\* \s
is_regex_space(c) == c \in {" ", "nl", "tab"}

\* [-a-zA-Z0-9()@%_\+.~#?&//=]
is_url_tail_char(c) ==
    c \in AsciiAlnum \cup {"-", "(", ")", "@", "%", "_", "+", ".", "~", "#", "?", "&", "/", "="}

\* [-a-zA-Z0-9@:%._\+~#=] and, without the colon, [-a-zA-Z0-9@%._\+~#=]
is_url_host_char(c, with_colon) ==
    \/ c \in AsciiAlnum \cup {"-", "@", "%", ".", "_", "+", "~", "#", "="}
    \/ with_colon /\ c = ":"

\* [a-zA-Z0-9()]
is_url_tld_char(c) == c \in AsciiAlnum \cup {"(", ")"}

\* a literal
expect(d, i, lit) == IF i > 0 /\ starts_with_at(d, i, lit) THEN i + Len(lit) ELSE 0

\* a literal followed by "?": taken when it is there
optional(d, i, lit) == IF i > 0 /\ starts_with_at(d, i, lit) THEN i + Len(lit) ELSE i

\* the position after the longest run of characters of a class that starts at i
run_end(d, i, in_class(_)) ==
    Min({k \in i..(Len(d) + 1) : k > Len(d) \/ ~in_class(d[k])})

\* \b at position i: exactly one of the characters before and after is a word character
word_boundary(d, i) ==
    LET before == i > 1 /\ i - 1 <= Len(d) /\ is_word(d[i - 1])
        after == i >= 1 /\ i <= Len(d) /\ is_word(d[i])
    IN  before # after

\* https?://
scheme_end(d, i) == expect(d, optional(d, expect(d, i, <<"h", "t", "t", "p">>), <<"s">>), <<":", "/", "/">>)

\* <host>\b([-a-zA-Z0-9()@%_\+.~#?&//=]*) for a literal host
fixed_host_url_end(d, i, host) ==
    LET h == expect(d, i, host)
    IN  IF h > 0 /\ word_boundary(d, h)
        THEN run_end(d, h, is_url_tail_char)
        ELSE 0

\* [host class]{1,256}\.[a-zA-Z0-9()]{1,6}\b[tail class]* from position i.
\* Every repetition is greedy: the longest host run after which the rest
\* matches is taken, then the longest top-level run that ends on a boundary.
generic_host_url_end(d, i, with_colon) ==
    LET host_char(c) == is_url_host_char(c, with_colon)
        host_max == run_end(d, i, host_char)
        tld_ends(dot) ==
            {e \in (dot + 2)..(dot + 7) :
                /\ e <= run_end(d, dot + 1, is_url_tld_char)
                /\ word_boundary(d, e)}
        dots == {k \in (i + 1)..(i + 256) :
                    /\ k <= host_max
                    /\ k <= Len(d)
                    /\ d[k] = "."
                    /\ tld_ends(k) # {}}
    IN  IF i = 0 \/ dots = {} THEN 0
        ELSE run_end(d, Max(tld_ends(Max(dots))), is_url_tail_char)

\* https?://(www\.)?[host class]{1,256}\. ... : the optional "www." is tried
\* first and given up when the rest does not match after it
generic_url_end(d, i, with_colon) ==
    LET s == scheme_end(d, i)
        w == expect(d, s, <<"w", "w", "w", ".">>)
    IN  IF s = 0 THEN 0
        ELSE IF w > 0 /\ generic_host_url_end(d, w, with_colon) > 0
        THEN generic_host_url_end(d, w, with_colon)
        ELSE generic_host_url_end(d, s, with_colon)

\* the leftmost position at or after `from` where the matcher matches, 0 for none
leftmost(d, from, match_end(_, _)) ==
    LET starts == {i \in from..Len(d) : match_end(d, i) > 0}
    IN  IF starts = {} THEN 0 ELSE Min(starts)

(***************************************************************************)
(* Url::parse on the texts of the model: an absolute http or https URL      *)
(* whose path holds no "." or ".." segment and whose characters need no     *)
(* percent-encoding. The value is the serialization of the parsed Url.      *)
(***************************************************************************)
is_forbidden_host_char(c) ==
    c \in {" ", "nl", "tab", "#", "%", "/", ":", "<", ">", "?", "@", "[", "bs", "]", "^", "|"}

is_authority_end(c) == c \in {"/", "?", "#", "bs"}

parse_absolute(input) ==
    LET s == scheme_end(input, 1)
        scheme == SubSeq(input, 1, s - 1)
        a == run_end(input, s, LAMBDA c : ~is_authority_end(c))
        authority == SubSeq(input, s, a - 1)
        ats == {k \in DOMAIN authority : authority[k] = "@"}
        \* an empty userinfo is dropped with its "@"
        userinfo == IF ats = {} \/ Max(ats) = 1 THEN <<>>
                    ELSE SubSeq(authority, 1, Max(ats))
        hostport == IF ats = {} THEN authority
                    ELSE SubSeq(authority, Max(ats) + 1, Len(authority))
        colons == {k \in DOMAIN hostport : hostport[k] = ":"}
        host == IF colons = {} THEN hostport ELSE SubSeq(hostport, 1, Max(colons) - 1)
        port == IF colons = {} THEN <<>>
                ELSE SubSeq(hostport, Max(colons) + 1, Len(hostport))
        rest == SubSeq(input, a, Len(input))
        path == IF rest = <<>> \/ rest[1] # "/" THEN <<"/">> \o rest ELSE rest
    IN  IF s = 0 THEN Err(<<"relative URL without a base">>)
        ELSE IF host = <<>> THEN Err(<<"empty host">>)
        ELSE IF \E k \in DOMAIN port : port[k] \notin Range(AsciiDigits)
        THEN Err(<<"invalid port number">>)
        ELSE IF \E k \in DOMAIN host : is_forbidden_host_char(host[k])
        THEN Err(<<"invalid domain character">>)
        ELSE Ok(scheme \o userinfo \o to_lowercase(host)
                \o (IF port = <<>> THEN <<>> ELSE <<":">> \o port) \o path)

\* Url::parse
url_parse(input) == with(input, parse_absolute)

(***************************************************************************)
(* get_twitter_url_from_description                                         *)
(***************************************************************************)
TwitterUrlParseFailed == <<"twitter url parse failed">>

\* (https?://(www\.)?twitter\.com\b([-a-zA-Z0-9()@%_\+.~#?&//=]*))
twitter_match_end(d, i) ==
    fixed_host_url_end(d, optional(d, scheme_end(d, i), <<"w", "w", "w", ".">>), <<"t", "w", "i", "t", "t", "e", "r", ".", "c", "o", "m">>)

\* Regex::captures_iter: the successive leftmost matches, each search resuming
\* where the previous match ended; <<start, end>> of each, in text order
RECURSIVE twitter_captures_iter(_, _)
twitter_captures_iter(d, from) ==
    LET i == leftmost(d, from, twitter_match_end)
    IN  IF i = 0 THEN <<>>
        ELSE << <<i, twitter_match_end(d, i)>> >>
             \o twitter_captures_iter(d, twitter_match_end(d, i))

\* Iterator::last
last(items) == IF items = <<>> THEN <<>> ELSE <<items[Len(items)]>>

get_twitter_url_from_description(description) ==
    LET matched == last(twitter_captures_iter(description, 1))
    IN  IF matched # <<>>
        THEN url_parse(SubSeq(description, matched[1][1], matched[1][2] - 1))
        ELSE Err(TwitterUrlParseFailed)

(***************************************************************************)
(* get_youtube_link_from_description                                        *)
(***************************************************************************)
YoutubeUrlParseFailed == <<"youtube url parse failed">>

is_youtube_id_char(c) == is_word(c) \/ c = "-"

is_youtube_param_char(c) == is_word(c) \/ c \in {"?", "="}

\* http(?:s?)://(?:www\.)?youtu(?:be\.com/watch\?v=|\.be/)([\w\-_]*)(&(amp;)?[\w\?=]*)?
youtube_match_end(d, i) ==
    LET y == expect(d, optional(d, scheme_end(d, i), <<"w", "w", "w", ".">>), <<"y", "o", "u", "t", "u">>)
        long == expect(d, y, <<"b", "e", ".", "c", "o", "m", "/", "w", "a", "t", "c", "h", "?", "v", "=">>)
        short == expect(d, y, <<".", "b", "e", "/">>)
        id == IF long > 0 THEN long ELSE short
        id_end == run_end(d, id, is_youtube_id_char)
        amp == expect(d, id_end, <<"&">>)
    IN  IF id = 0 THEN 0
        ELSE IF amp = 0 THEN id_end
        ELSE run_end(d, optional(d, amp, <<"a", "m", "p", ";">>), is_youtube_param_char)

\* Regex::captures: the leftmost match
captures(d, match_end(_, _)) ==
    LET i == leftmost(d, 1, match_end)
    IN  IF i = 0 THEN <<>> ELSE << <<i, match_end(d, i)>> >>

get_youtube_link_from_description(description) ==
    LET matched == captures(description, youtube_match_end)
    IN  IF matched # <<>>
        THEN url_parse(SubSeq(description, matched[1][1], matched[1][2] - 1))
        ELSE Err(YoutubeUrlParseFailed)

(***************************************************************************)
(* get_ticket_link_from_description                                         *)
(***************************************************************************)
TicketUrlParseFailed == <<"ticket url parse failed">>

\* [T|t]icket (?:[L|l]ink|site):\s? : the position of the URL that follows
ticket_label_end(d, i) ==
    LET t == IF i <= Len(d) /\ d[i] \in {"T", "|", "t"} THEN expect(d, i + 1, <<"i", "c", "k", "e", "t", " ">>) ELSE 0
        link == IF t > 0 /\ t <= Len(d) /\ d[t] \in {"L", "|", "l"}
                THEN expect(d, t + 1, <<"i", "n", "k">>)
                ELSE 0
        word == IF link > 0 THEN link ELSE expect(d, t, <<"s", "i", "t", "e">>)
        colon == expect(d, word, <<":">>)
    IN  IF colon > 0 /\ colon <= Len(d) /\ is_regex_space(d[colon]) THEN colon + 1 ELSE colon

\* pattern 0: the labelled line; group 1 is the URL
ticket_label_match_end(d, i) == generic_url_end(d, ticket_label_end(d, i), FALSE)

\* pattern 1: (https?://(www\.)?zan-live\.com\b(...))
zan_match_end(d, i) ==
    fixed_host_url_end(d, optional(d, scheme_end(d, i), <<"w", "w", "w", ".">>), <<"z", "a", "n", "-", "l", "i", "v", "e", ".", "c", "o", "m">>)

\* pattern 2: (https?://virtual\.spwn\.jp\b(...))
spwn_match_end(d, i) == fixed_host_url_end(d, scheme_end(d, i), <<"v", "i", "r", "t", "u", "a", "l", ".", "s", "p", "w", "n", ".", "j", "p">>)

\* pattern 3: (https?://live\.nicovideo\.jp\b(...))
nico_match_end(d, i) == fixed_host_url_end(d, scheme_end(d, i), <<"l", "i", "v", "e", ".", "n", "i", "c", "o", "v", "i", "d", "e", "o", ".", "j", "p">>)

\* regexes[idx].captures(description): <<start, end>> of group 1 of the
\* leftmost match of pattern idx, <<>> when it does not match
ticket_captures(d, idx) ==
    LET i == IF idx = 0 THEN leftmost(d, 1, ticket_label_match_end)
             ELSE IF idx = 1 THEN leftmost(d, 1, zan_match_end)
             ELSE IF idx = 2 THEN leftmost(d, 1, spwn_match_end)
             ELSE leftmost(d, 1, nico_match_end)
    IN  IF i = 0 THEN <<>>
        ELSE IF idx = 0 THEN <<ticket_label_end(d, i), ticket_label_match_end(d, i)>>
        ELSE IF idx = 1 THEN <<i, zan_match_end(d, i)>>
        ELSE IF idx = 2 THEN <<i, spwn_match_end(d, i)>>
        ELSE <<i, nico_match_end(d, i)>>

\* RegexSet::matches: the indices of the patterns that match somewhere
ticket_set_matches(d) == {idx \in 0..3 : ticket_captures(d, idx) # <<>>}

\* a variant: the pattern whose match starts first in the text is taken,
\* whatever its index
get_ticket_link_by_position(description) ==
    IF ticket_set_matches(description) # {}
    THEN with(CHOOSE idx \in ticket_set_matches(description) :
                  \A other \in ticket_set_matches(description) :
                      \/ ticket_captures(description, idx)[1] < ticket_captures(description, other)[1]
                      \/ /\ ticket_captures(description, idx)[1] = ticket_captures(description, other)[1]
                         /\ idx <= other,
              LAMBDA first_idx :
                  url_parse(SubSeq(description, ticket_captures(description, first_idx)[1],
                                   ticket_captures(description, first_idx)[2] - 1)))
    ELSE Err(TicketUrlParseFailed)

get_ticket_link_from_description(description) ==
    IF ticket_set_matches(description) # {}
    THEN with(ticket_captures(description, Min(ticket_set_matches(description))),
              LAMBDA matched : url_parse(SubSeq(description, matched[1], matched[2] - 1)))
    ELSE Err(TicketUrlParseFailed)

(***************************************************************************)
(* get_official_link_from_description                                       *)
(***************************************************************************)
OfficialUrlParseFailed == <<"official url parse failed">>

\* Official site:\s? : the position of the URL that follows
official_label_end(d, i) ==
    LET colon == expect(d, i, <<"O", "f", "f", "i", "c", "i", "a", "l", " ", "s", "i", "t", "e", ":">>)
    IN  IF colon > 0 /\ colon <= Len(d) /\ is_regex_space(d[colon]) THEN colon + 1 ELSE colon

official_match_end(d, i) == generic_url_end(d, official_label_end(d, i), TRUE)

get_official_link_from_description(description) ==
    LET i == leftmost(description, 1, official_match_end)
    IN  IF i > 0
        THEN url_parse(SubSeq(description, official_label_end(description, i),
                              official_match_end(description, i) - 1))
        ELSE Err(OfficialUrlParseFailed)

(***************************************************************************)
(* get_image_url_from_description                                           *)
(***************************************************************************)
ImageUrlParseFailed == <<"image url parse failed">>

\* !Image: (url)
first_try_label_end(d, i) == expect(d, i, <<"!", "I", "m", "a", "g", "e", ":", " ">>)

first_try_match_end(d, i) == generic_url_end(d, first_try_label_end(d, i), TRUE)

\* !.*?: (url) : the lazy star stops at the first ": " after which a URL matches
second_try_label_ends(d, i) ==
    IF i > Len(d) \/ d[i] # "!" THEN {}
    ELSE {k \in (i + 3)..(Len(d) + 1) :
            /\ SubSeq(d, k - 2, k - 1) = <<":", " ">>
            /\ \A j \in (i + 1)..(k - 3) : d[j] # "nl"
            /\ generic_url_end(d, k, TRUE) > 0}

second_try_label_end(d, i) ==
    IF second_try_label_ends(d, i) = {} THEN 0 ELSE Min(second_try_label_ends(d, i))

second_try_match_end(d, i) == generic_url_end(d, second_try_label_end(d, i), TRUE)

\* a variant: the generic pattern tried before the "!Image:" pattern
get_image_url_generic_first(description) ==
    LET first_i == leftmost(description, 1, first_try_match_end)
        second_i == leftmost(description, 1, second_try_match_end)
    IN  IF second_i > 0
        THEN url_parse(SubSeq(description, second_try_label_end(description, second_i),
                              second_try_match_end(description, second_i) - 1))
        ELSE IF first_i > 0
        THEN url_parse(SubSeq(description, first_try_label_end(description, first_i),
                              first_try_match_end(description, first_i) - 1))
        ELSE Err(ImageUrlParseFailed)

get_image_url_from_description(description) ==
    LET first_i == leftmost(description, 1, first_try_match_end)
        second_i == leftmost(description, 1, second_try_match_end)
    IN  IF first_i > 0
        THEN url_parse(SubSeq(description, first_try_label_end(description, first_i),
                              first_try_match_end(description, first_i) - 1))
        ELSE IF second_i > 0
        THEN url_parse(SubSeq(description, second_try_label_end(description, second_i),
                              second_try_match_end(description, second_i) - 1))
        ELSE Err(ImageUrlParseFailed)

LinkPieces ==
    << <<"h", "t", "t", "p", "s", ":", "/", "/", "t", "w", "i", "t", "t", "e", "r", ".", "c", "o", "m", "/", "a">>, <<"h", "t", "t", "p", ":", "/", "/", "w", "w", "w", ".", "t", "w", "i", "t", "t", "e", "r", ".", "c", "o", "m", "/", "b">>, <<"h", "t", "t", "p", "s", ":", "/", "/", "t", "w", "i", "t", "t", "e", "r", ".", "c", "o", "m", "@">>,
       <<"h", "t", "t", "p", "s", ":", "/", "/", "t", "w", "i", "t", "t", "e", "r", ".", "c", "o", "m", "/", "?", "u", "=">>, <<"h", "t", "t", "p", "s", ":", "/", "/", "y", "o", "u", "t", "u", ".", "b", "e", "/", "x">>,
       <<"h", "t", "t", "p", "s", ":", "/", "/", "w", "w", "w", ".", "y", "o", "u", "t", "u", "b", "e", ".", "c", "o", "m", "/", "w", "a", "t", "c", "h", "?", "v", "=", "y", "&", "t", "=", "1">>, <<" ">>, <<"nl">>, <<"L", "i", "v", "e">> >>

LinksInit == InitCall(TextsOf(LinkPieces, MaxPieces))

TwitterCall ==
    /\ pc = "call"
    /\ Return("get_twitter_url_from_description", get_twitter_url_from_description(arg))

YoutubeCall ==
    /\ pc = "call"
    /\ Return("get_youtube_link_from_description", get_youtube_link_from_description(arg))

LinksNext == TwitterCall \/ YoutubeCall

LinksSpec == LinksInit /\ [][LinksNext]_vars

(***************************************************************************)
(* C10: which of several links the two extractors return.                   *)
(***************************************************************************)
\* the positions of the text at which a social-media-domain URL starts
TwitterOccurrences(d) == {i \in DOMAIN d : twitter_match_end(d, i) > 0}

\* the positions at which a video watch-link or short-link starts
YoutubeOccurrences(d) == {i \in DOMAIN d : youtube_match_end(d, i) > 0}

TwitterText(d, i) == SubSeq(d, i, twitter_match_end(d, i) - 1)

YoutubeText(d, i) == SubSeq(d, i, youtube_match_end(d, i) - 1)

\* the occurrences that are well-formed URLs
TwitterUrls(d) == {i \in TwitterOccurrences(d) : url_parse(TwitterText(d, i)).ok}

YoutubeUrls(d) == {i \in YoutubeOccurrences(d) : url_parse(YoutubeText(d, i)).ok}

\* C10: the social-post extractor returns the last social-media URL
\* of the description in text order and the video extractor the first video
\* link; each fails when the description holds no such link.
C10_LastTwitterFirstYoutube ==
    /\ pc = "get_twitter_url_from_description" =>
          IF TwitterUrls(arg) = {} THEN ~ret.ok
          ELSE ret = url_parse(TwitterText(arg, Max(TwitterUrls(arg))))
    /\ pc = "get_youtube_link_from_description" =>
          IF YoutubeUrls(arg) = {} THEN ~ret.ok
          ELSE ret = url_parse(YoutubeText(arg, Min(YoutubeUrls(arg))))

(***************************************************************************)
(* Time. An instant is a whole number of hours since 2023-01-01T00:00Z, a   *)
(* NaiveDateTime the same count read on a wall clock, a NaiveDate a number  *)
(* of days since 2023-01-01.                                                *)
(***************************************************************************)
HoursPerDay == 24

\* chrono-tz zones: the offset from UTC in hours outside and inside the
\* daylight-saving period, and the instants at which that period starts and
\* ends (2023-03-12T07:00Z and 2023-11-05T06:00Z for New York)
TzUtc == [std |-> 0, dst |-> 0, dst_from |-> 0, dst_until |-> 0]

Tokyo == [std |-> 9, dst |-> 9, dst_from |-> 0, dst_until |-> 0]

NewYork == [std |-> -5, dst |-> -4, dst_from |-> 1687, dst_until |-> 7398]

KnownTzids == {"UTC", "Asia/Tokyo", "America/New_York"}

\* tzid.parse::<Tz>(): <<zone>>, or <<>> for an identifier chrono-tz does not know
parse_tz(tzid) ==
    IF tzid = "UTC" THEN <<TzUtc>>
    ELSE IF tzid = "Asia/Tokyo" THEN <<Tokyo>>
    ELSE IF tzid = "America/New_York" THEN <<NewYork>>
    ELSE <<>>

utc_offset(tz, utc) == IF tz.dst_from <= utc /\ utc < tz.dst_until THEN tz.dst ELSE tz.std

\* LocalResult::earliest in place of the single(): an ambiguous local time
\* resolved to its earlier instant
and_local_timezone_earliest(naive, tz) ==
    LET all == {utc \in (naive - 14)..(naive + 14) : utc + utc_offset(tz, utc) = naive}
    IN  IF all = {} THEN {} ELSE {Min(all)}

\* NaiveDateTime::and_local_timezone: the instants whose wall-clock reading in
\* the zone is `naive`: none (LocalResult::None), one (Single) or two (Ambiguous)
and_local_timezone(naive, tz) ==
    {utc \in (naive - 14)..(naive + 14) : utc + utc_offset(tz, utc) = naive}

is_single(local_result) == Cardinality(local_result) = 1

single(local_result) == CHOOSE t \in local_result : TRUE

\* a panic (Option::unwrap or Result::unwrap on nothing) unwinds the caller
Panic(msg) == [ok |-> FALSE, panic |-> msg]

is_panic(r) == "panic" \in DOMAIN r

(***************************************************************************)
(* icalendar::Event: each property is <<>> when absent, <<value>> otherwise *)
(***************************************************************************)
Date(naive_date) == [kind |-> "Date", value |-> naive_date, tzid |-> ""]

Utc(utc) == [kind |-> "Utc", value |-> utc, tzid |-> ""]

Floating(naive) == [kind |-> "Floating", value |-> naive, tzid |-> ""]

WithTimezone(date_time, tzid) == [kind |-> "WithTimezone", value |-> date_time, tzid |-> tzid]

Event(summary, categories, description, start, attach) ==
    [summary |-> summary, categories |-> categories, description |-> description,
     start |-> start, attach |-> attach]

(***************************************************************************)
(* get_start_time_from_event                                                *)
(***************************************************************************)
StartTimeUnavailable == <<"start time unavailable">>

get_start_time_from_event(event) ==
    IF event.start = <<>> THEN Err(StartTimeUnavailable)
    ELSE LET d == event.start[1]
         IN  IF d.kind = "Date"
             THEN LET r == and_local_timezone(d.value * HoursPerDay, TzUtc)
                  IN  IF is_single(r) THEN Ok(single(r)) ELSE Err(StartTimeUnavailable)
             ELSE IF d.kind = "Utc" THEN Ok(d.value)
             ELSE IF d.kind = "Floating"
             THEN LET r == and_local_timezone(d.value, TzUtc)
                  IN  IF is_single(r) THEN Ok(single(r)) ELSE Err(StartTimeUnavailable)
             ELSE IF parse_tz(d.tzid) = <<>> THEN Panic("tzid.parse().unwrap()")
             ELSE LET r == and_local_timezone(d.value, parse_tz(d.tzid)[1])
                  IN  IF is_single(r) THEN Ok(single(r)) ELSE Err(StartTimeUnavailable)

(***************************************************************************)
(* get_image_url_from_event                                                 *)
(***************************************************************************)
FailedToGetSummary == <<"failed to get summary">>

FailedToGetCategory == <<"failed to get category">>

FailedToGetDescription == <<"failed to get description">>

\* a variant: the description scanned when the attachment is not a well-formed URL
get_image_url_from_event_lenient(e) ==
    IF e.attach # <<>> /\ url_parse(e.attach[1]).ok THEN url_parse(e.attach[1])
    ELSE IF e.description = <<>> THEN Err(FailedToGetDescription)
    ELSE with(remove_form_link_from_description_and_trim(e.description[1]),
              get_image_url_from_description)

get_image_url_from_event(e) ==
    IF e.attach # <<>> THEN url_parse(e.attach[1])
    ELSE IF e.description = <<>> THEN Err(FailedToGetDescription)
    ELSE with(remove_form_link_from_description_and_trim(e.description[1]),
              get_image_url_from_description)

(***************************************************************************)
(* get_concert_from_event                                                   *)
(***************************************************************************)
\* Result::ok
ok(r) == IF r.ok THEN <<r.val>> ELSE <<>>

\* the "?" operator: the rest of the function on the value of an Ok, the
\* failure returned at once otherwise (a panic unwinds the same way)
try(result, rest(_)) == with(result, LAMBDA r : IF r.ok THEN rest(r.val) ELSE r)

\* lines 51-57: the five link fields, each Result turned into an Option, and
\* the record; `id` is the value Uuid::new_v4() draws
live_concert(id, split, platform, trimmed_description, start_time, image_url) ==
    [id |-> id,
     title |-> split.title,
     format |-> split.format,
     jpy_price |-> split.jpy_price,
     platform |-> platform,
     description |-> trimmed_description,
     start_time |-> start_time,
     image_url |-> ok(image_url),
     twitter_url |-> ok(get_twitter_url_from_description(trimmed_description)),
     youtube_link |-> ok(get_youtube_link_from_description(trimmed_description)),
     ticket_link |-> ok(get_ticket_link_from_description(trimmed_description)),
     official_link |-> ok(get_official_link_from_description(trimmed_description))]

\* a variant: the social-post extractor's failure propagated with "?" instead
\* of being turned into an absent field
get_concert_from_event_strict_twitter(e, id) ==
    IF e.summary = <<>> THEN Err(FailedToGetSummary)
    ELSE IF e.categories = <<>> THEN Err(FailedToGetCategory)
    ELSE try(get_title_price_and_platform_from_summary(trim(e.summary[1])), LAMBDA split :
         try(get_platform_from_tag(trim(e.categories[1])), LAMBDA platform :
         IF e.description = <<>> THEN Err(FailedToGetDescription)
         ELSE with(remove_form_link_from_description_and_trim(e.description[1]),
                   LAMBDA trimmed_description :
              try(get_start_time_from_event(e), LAMBDA start_time :
              try(get_twitter_url_from_description(trimmed_description), LAMBDA twitter_url :
              Ok(live_concert(id, split, platform, trimmed_description, start_time,
                              get_image_url_from_event(e))))))))

\* a variant: the description fetched before the summary is split
get_concert_from_event_description_first(e, id) ==
    IF e.summary = <<>> THEN Err(FailedToGetSummary)
    ELSE IF e.categories = <<>> THEN Err(FailedToGetCategory)
    ELSE IF e.description = <<>> THEN Err(FailedToGetDescription)
    ELSE try(get_title_price_and_platform_from_summary(trim(e.summary[1])), LAMBDA split :
         try(get_platform_from_tag(trim(e.categories[1])), LAMBDA platform :
         with(remove_form_link_from_description_and_trim(e.description[1]),
              LAMBDA trimmed_description :
         try(get_start_time_from_event(e), LAMBDA start_time :
         Ok(live_concert(id, split, platform, trimmed_description, start_time,
                         get_image_url_from_event(e)))))))

get_concert_from_event(e, id) ==
    IF e.summary = <<>> THEN Err(FailedToGetSummary)
    ELSE IF e.categories = <<>> THEN Err(FailedToGetCategory)
    ELSE try(get_title_price_and_platform_from_summary(trim(e.summary[1])), LAMBDA split :
         try(get_platform_from_tag(trim(e.categories[1])), LAMBDA platform :
         IF e.description = <<>> THEN Err(FailedToGetDescription)
         ELSE with(remove_form_link_from_description_and_trim(e.description[1]),
                   LAMBDA trimmed_description :
              try(get_start_time_from_event(e), LAMBDA start_time :
              Ok(live_concert(id, split, platform, trimmed_description, start_time,
                              get_image_url_from_event(e)))))))

(***************************************************************************)
(* Calls of get_start_time_from_event                                       *)
(***************************************************************************)
MaxSkew == 2

\* wall-clock hours around the two New York transitions of 2023: 02:00 on
\* 12 March does not exist there, 01:00 on 5 November occurs twice
SpringGap == [naive |-> 1682]

FallOverlap == [naive |-> 7393]

NaiveSamples ==
    {t + k : t \in {SpringGap.naive, FallOverlap.naive}, k \in (0 - MaxSkew)..MaxSkew}

DateSamples == {t \div HoursPerDay : t \in NaiveSamples} \cup {(t \div HoursPerDay) + 1 : t \in NaiveSamples}

StartOptions ==
    {<<>>}
        \cup {<<Date(d)>> : d \in DateSamples}
        \cup {<<Utc(t)>> : t \in NaiveSamples}
        \cup {<<Floating(t)>> : t \in NaiveSamples}
        \cup {<<WithTimezone(t, z)>> : t \in NaiveSamples,
                                        z \in KnownTzids \cup {"Mars/Olympus_Mons"}}

StartInit == InitCall({Event(<<>>, <<>>, <<>>, s, <<>>) : s \in StartOptions})

StartCall ==
    /\ pc = "call"
    /\ Return("get_start_time_from_event", get_start_time_from_event(arg))

StartSpec == StartInit /\ [][StartCall]_vars

\* the instants at which the zone's clock reads `naive`: the wall-clock time
\* minus the offset in force at the instant
InstantsReading(naive, tz) ==
    {utc \in (naive - 14)..(naive + 14) : utc = naive - utc_offset(tz, utc)}

\* C9: a date gives its midnight in UTC; a floating time gives the same
\* wall-clock time in UTC; a time in a named zone gives the one instant at
\* which the zone's clock reads it, and fails when there are two such instants
\* or none; an event with no start time fails.
C9_StartTimeResolution ==
    pc = "get_start_time_from_event" =>
        IF arg.start = <<>> THEN ret = Err(StartTimeUnavailable)
        ELSE LET d == arg.start[1]
             IN  /\ d.kind = "Date" => ret = Ok(d.value * 24)
                 /\ d.kind = "Floating" => ret = Ok(d.value)
                 /\ d.kind = "WithTimezone" /\ d.tzid \in KnownTzids =>
                       LET at == InstantsReading(d.value, parse_tz(d.tzid)[1])
                       IN  IF Cardinality(at) = 1
                           THEN \E utc \in at : ret = Ok(utc)
                           ELSE ret = Err(StartTimeUnavailable)

\* a New York wall-clock time that occurs twice has been refused
C9_Witness ==
    /\ pc = "get_start_time_from_event"
    /\ arg.start # <<>>
    /\ arg.start[1].kind = "WithTimezone"
    /\ arg.start[1].tzid = "America/New_York"
    /\ Cardinality(InstantsReading(arg.start[1].value, NewYork)) = 2
    /\ ret = Err(StartTimeUnavailable)

(***************************************************************************)
(* Calls of get_concert_from_event                                          *)
(***************************************************************************)
GoodSummary == <<"(", "yen", "2", "0", "0", "0", "+", ")", "(", "globe", "chair", ")">> \o <<"G", "a", "o", "h", " ", "O", "m", "i", " ", "1", "s", "t", " ", "L", "i", "v", "e">>

SummaryOptions ==
    { <<>>, <<GoodSummary>>, <<<<" ", "(", "T", "B", "A", ")", "(">> \o <<"globe">> \o <<")", "L", "i", "L", "Y", "P", "S", "E", " ">>>>,
      <<<<"G", "a", "o", "h", " ", "O", "m", "i", " ", "1", "s", "t", " ", "L", "i", "v", "e">>>>, <<<<"(", "x", ")", "(">> \o <<"globe">> \o <<")", "L", "i", "v", "e">>>>,
      <<<<"(", "F", "r", "e", "e", ")", "(", "x", ")", "L", "i", "v", "e">>>> }

CategoryOptions == { <<>>, <<<<" ", "Z", "-", "a", "N", " ">>>>, <<<<"S", "P", "W", "N">>>>, <<<<"S", "o", "m", "e", " ", "o", "t", "h", "e", "r">>>> }

\* the lines a description is made of
DescriptionLines ==
    << <<"!", "I", "m", "a", "g", "e", ":", " ", "h", "t", "t", "p", "s", ":", "/", "/", "a", ".", "j", "p", "/", "i", ".", "p", "n", "g">> \o <<"nl">>,
       <<"h", "t", "t", "p", "s", ":", "/", "/", "t", "w", "i", "t", "t", "e", "r", ".", "c", "o", "m", "/", "a">> \o <<"nl">>,
       <<"Y", "o", "u", "T", "u", "b", "e", " ", "l", "i", "n", "k", ":", " ", "h", "t", "t", "p", "s", ":", "/", "/", "y", "o", "u", "t", "u", ".", "b", "e", "/", "x", " ">> \o <<"nl">>,
       <<"T", "i", "c", "k", "e", "t", " ", "l", "i", "n", "k", ":", " ", "h", "t", "t", "p", "s", ":", "/", "/", "w", "w", "w", ".", "z", "a", "n", "-", "l", "i", "v", "e", ".", "c", "o", "m", "/", "b">> \o <<"nl">>,
       <<"O", "f", "f", "i", "c", "i", "a", "l", " ", "s", "i", "t", "e", ":", " ", "h", "t", "t", "p", "s", ":", "/", "/", "c", ".", "j", "p", "/", "d">> \o <<"nl">> >>

\* the lines chosen by `pick`, in order, and the form link with its trailing "\n"
DescriptionOf(pick) ==
    Concat([i \in DOMAIN DescriptionLines |->
               IF i \in pick THEN DescriptionLines[i] ELSE <<>>])
        \o FormLink \o <<"bs", "n">>

DescriptionOptions ==
    {<<>>} \cup {<<DescriptionOf(pick)>> : pick \in SUBSET DOMAIN DescriptionLines}

AttachOptions == { <<>>, <<<<"h", "t", "t", "p", "s", ":", "/", "/", "e", ".", "j", "p", "/", "p", "o", "s", "t", "e", "r", ".", "p", "n", "g">>>>, <<<<"p", "o", "s", "t", "e", "r", ".", "p", "n", "g">>>> }

ConcertStartOptions ==
    { <<>>, <<Date(308)>>, <<Utc(7390)>>, <<Floating(7390)>>,
      <<WithTimezone(7390, "Asia/Tokyo")>>,
      <<WithTimezone(FallOverlap.naive, "America/New_York")>>,
      <<WithTimezone(SpringGap.naive, "America/New_York")>>,
      <<WithTimezone(7390, "Mars/Olympus_Mons")>> }

Uuids == {"uuid-1", "uuid-2"}

ConcertInit ==
    InitCall({Event(s, c, d, t, a) : s \in SummaryOptions, c \in CategoryOptions,
                                d \in DescriptionOptions, t \in ConcertStartOptions,
                                a \in AttachOptions})

ConcertCall ==
    /\ pc = "call"
    /\ \E id \in Uuids : Return("get_concert_from_event", get_concert_from_event(arg, id))

ConcertSpec == ConcertInit /\ [][ConcertCall]_vars

\* the steps of the aggregation on the event, each as the component alone decides it
SplitOf(e) == get_title_price_and_platform_from_summary(trim(e.summary[1]))

PlatformOf(e) == get_platform_from_tag(trim(e.categories[1]))

StartOf(e) == get_start_time_from_event(e)

RequiredStepsSucceed(e) ==
    /\ e.summary # <<>>
    /\ e.categories # <<>>
    /\ SplitOf(e).ok
    /\ PlatformOf(e).ok
    /\ e.description # <<>>
    /\ StartOf(e).ok

\* C6: an event that lacks a required input, or on which a required step
\* fails, gives no record; the failure is that of the first failing step in
\* the order summary presence, category presence, summary split with price and
\* format, platform, description presence, start time, and names the field
\* when the field is absent.
C6_FirstFailingStepReported ==
    pc = "get_concert_from_event" =>
        /\ ~RequiredStepsSucceed(arg) => ~ret.ok
        /\ IF arg.summary = <<>> THEN ret = Err(FailedToGetSummary)
           ELSE IF arg.categories = <<>> THEN ret = Err(FailedToGetCategory)
           ELSE IF ~SplitOf(arg).ok THEN ret = SplitOf(arg)
           ELSE IF ~PlatformOf(arg).ok THEN ret = PlatformOf(arg)
           ELSE IF arg.description = <<>> THEN ret = Err(FailedToGetDescription)
           ELSE IF ~StartOf(arg).ok THEN ret = StartOf(arg)
           ELSE ret.ok

\* an event with no description and no start time whose summary does not
\* split has failed with the summary's error
C6_Witness ==
    /\ pc = "get_concert_from_event"
    /\ arg.summary # <<>>
    /\ arg.categories # <<>>
    /\ arg.description = <<>>
    /\ arg.start = <<>>
    /\ ~SplitOf(arg).ok
    /\ ret = SplitOf(arg)

SanitizedOf(e) == remove_form_link_from_description_and_trim(e.description[1])

\* C7: when the required steps succeed a record is returned, and each of its
\* five link fields is the URL its own extractor finds, absent when that
\* extractor fails, whatever the other four do.
C7_LinksBestEffort ==
    pc = "get_concert_from_event" /\ RequiredStepsSucceed(arg) =>
        /\ ret.ok
        /\ ret.val.image_url = ok(get_image_url_from_event(arg))
        /\ ret.val.twitter_url = ok(get_twitter_url_from_description(SanitizedOf(arg)))
        /\ ret.val.youtube_link = ok(get_youtube_link_from_description(SanitizedOf(arg)))
        /\ ret.val.ticket_link = ok(get_ticket_link_from_description(SanitizedOf(arg)))
        /\ ret.val.official_link = ok(get_official_link_from_description(SanitizedOf(arg)))

\* a record in which the image and social-post extractors failed and the
\* other three succeeded
C7_Witness ==
    /\ pc = "get_concert_from_event"
    /\ ret.ok
    /\ ~get_image_url_from_event(arg).ok
    /\ ~get_twitter_url_from_description(SanitizedOf(arg)).ok
    /\ ret.val.image_url = <<>>
    /\ ret.val.twitter_url = <<>>
    /\ ret.val.youtube_link # <<>>
    /\ ret.val.ticket_link # <<>>
    /\ ret.val.official_link # <<>>

(***************************************************************************)
(* is_future_event, read at the instant `utc_now` that Utc::now() returns   *)
(***************************************************************************)
\* a variant of is_future_event that keeps a date-only event of the current day
is_future_event_same_day(event, utc_now) ==
    IF event.start = <<>> THEN Ok(FALSE)
    ELSE LET d == event.start[1]
         IN  IF d.kind = "Date" THEN Ok(d.value >= utc_now \div HoursPerDay)
             ELSE IF d.kind = "Utc" THEN Ok(d.value > utc_now)
             ELSE IF d.kind = "Floating"
             THEN LET r == and_local_timezone(d.value, Tokyo)
                  IN  IF is_single(r) THEN Ok(single(r) > utc_now)
                      ELSE Panic("and_local_timezone(Tokyo).unwrap()")
             ELSE IF parse_tz(d.tzid) = <<>> THEN Panic("tzid.parse().unwrap()")
             ELSE LET r == and_local_timezone(d.value, parse_tz(d.tzid)[1])
                  IN  IF is_single(r) THEN Ok(single(r) > utc_now) ELSE Ok(FALSE)

is_future_event(event, utc_now) ==
    IF event.start = <<>> THEN Ok(FALSE)
    ELSE LET d == event.start[1]
         IN  IF d.kind = "Date" THEN Ok(d.value > utc_now \div HoursPerDay)
             ELSE IF d.kind = "Utc" THEN Ok(d.value > utc_now)
             ELSE IF d.kind = "Floating"
             THEN LET r == and_local_timezone(d.value, Tokyo)
                  IN  IF is_single(r) THEN Ok(single(r) > utc_now)
                      ELSE Panic("and_local_timezone(Tokyo).unwrap()")
             ELSE IF parse_tz(d.tzid) = <<>> THEN Panic("tzid.parse().unwrap()")
             ELSE LET r == and_local_timezone(d.value, parse_tz(d.tzid)[1])
                  IN  IF is_single(r) THEN Ok(single(r) > utc_now) ELSE Ok(FALSE)

(***************************************************************************)
(* The handler of GET /: index.  `arg` is the calendar the feed holds, as   *)
(* the sequence of its events; the handler's position is `pc`, `cursor` is  *)
(* the iterator's position and `all_lives` the records collected so far.    *)
(***************************************************************************)
MaxFeed == 2

MaxElapsed == 1

\* the request arrives late on 2023-11-03 UTC
NowSamples == {7390, 7391}

FeedDescription == <<"L", "i", "v", "e", "!", " ", "h", "t", "t", "p", "s", ":", "/", "/", "t", "w", "i", "t", "t", "e", "r", ".", "c", "o", "m", "/", "a">>

WellFormed(start) == Event(<<GoodSummary>>, <<<<" ", "Z", "-", "a", "N", " ">>>>, <<FeedDescription>>, <<start>>, <<>>)

FeedEvents ==
    { WellFormed(Utc(7395)), WellFormed(Utc(7380)), WellFormed(Date(308)), WellFormed(Date(307)),
      WellFormed(Floating(7403)), WellFormed(Floating(7395)),
      WellFormed(WithTimezone(7396, "America/New_York")),
      WellFormed(WithTimezone(FallOverlap.naive, "America/New_York")),
      WellFormed(WithTimezone(7403, "Mars/Olympus_Mons")),
      Event(<<>>, <<<<"S", "P", "W", "N">>>>, <<FeedDescription>>, <<Utc(7395)>>, <<>>),
      Event(<<<<"G", "a", "o", "h", " ", "O", "m", "i", " ", "1", "s", "t", " ", "L", "i", "v", "e">>>>, <<<<"S", "P", "W", "N">>>>, <<FeedDescription>>, <<Utc(7395)>>, <<>>),
      Event(<<GoodSummary>>, <<<<"S", "o", "m", "e", " ", "o", "t", "h", "e", "r">>>>, <<>>, <<Utc(7395)>>, <<>>),
      Event(<<GoodSummary>>, <<<<"S", "P", "W", "N">>>>, <<FeedDescription>>, <<>>, <<>>) }

Feeds == UNION {[1..n -> FeedEvents] : n \in 0..MaxFeed}

NotFound(e) == Err(<<"404 Not Found", e>>)

IndexInit ==
    /\ pc = "get_concert_calendar_in_string"
    /\ arg \in Feeds
    /\ ret = NoRet
    /\ now \in NowSamples
    /\ requested_at = now
    /\ cursor = 0
    /\ all_lives = <<>>

\* time passes while the request is served
Tick ==
    /\ pc \in {"get_concert_calendar_in_string", "read_calendar", "iter"}
    /\ now < requested_at + MaxElapsed
    /\ now' = now + 1
    /\ UNCHANGED <<pc, arg, ret, requested_at, cursor, all_lives>>

\* the feed could not be fetched
FetchFails ==
    /\ pc = "get_concert_calendar_in_string"
    /\ pc' = "responded"
    /\ ret' = NotFound("error sending request")
    /\ UNCHANGED <<arg, now, requested_at, cursor, all_lives>>

Fetch ==
    /\ pc = "get_concert_calendar_in_string"
    /\ pc' = "read_calendar"
    /\ UNCHANGED <<arg, ret, now, requested_at, cursor, all_lives>>

\* the body fetched is not an iCalendar document
ReadCalendarFails ==
    /\ pc = "read_calendar"
    /\ pc' = "responded"
    /\ ret' = NotFound("calendar parse error")
    /\ UNCHANGED <<arg, now, requested_at, cursor, all_lives>>

ReadCalendar ==
    /\ pc = "read_calendar"
    /\ pc' = "iter"
    /\ cursor' = 1
    /\ UNCHANGED <<arg, ret, now, requested_at, all_lives>>

\* one element through the chain filter(is_future_event),
\* filter_map(get_concert_from_event(..).ok()); a panic unwinds the handler
NextEvent ==
    /\ pc = "iter"
    /\ cursor <= Len(arg)
    /\ \E future \in {is_future_event(arg[cursor], now)} :
          IF is_panic(future)
          THEN /\ pc' = "panicked"
               /\ ret' = future
               /\ UNCHANGED <<cursor, all_lives>>
          ELSE IF ~future.val
          THEN /\ cursor' = cursor + 1
               /\ UNCHANGED <<pc, ret, all_lives>>
          ELSE \E id \in Uuids :
                  \E concert \in {get_concert_from_event(arg[cursor], id)} :
                      IF is_panic(concert)
                      THEN /\ pc' = "panicked"
                           /\ ret' = concert
                           /\ UNCHANGED <<cursor, all_lives>>
                      ELSE /\ cursor' = cursor + 1
                           /\ all_lives' = IF concert.ok THEN Append(all_lives, concert.val)
                                           ELSE all_lives
                           /\ UNCHANGED <<pc, ret>>
    /\ UNCHANGED <<arg, now, requested_at>>

\* collect() has drained the iterator: Ok(Json(all_lives))
Respond ==
    /\ pc = "iter"
    /\ cursor > Len(arg)
    /\ pc' = "responded"
    /\ ret' = Ok(all_lives)
    /\ UNCHANGED <<arg, now, requested_at, cursor, all_lives>>

IndexNext ==
    \/ Tick
    \/ FetchFails
    \/ Fetch
    \/ ReadCalendarFails
    \/ ReadCalendar
    \/ NextEvent
    \/ Respond

IndexSpec == IndexInit /\ [][IndexNext]_vars

\* an event that gives a record and is still in the future when the response is sent
WellFormedFutureEvent(e) ==
    /\ is_future_event(e, now) = Ok(TRUE)
    /\ \E id \in Uuids : get_concert_from_event(e, id).ok

HasRecordOf(records, e) ==
    \E j \in DOMAIN records, id \in Uuids : Ok(records[j]) = get_concert_from_event(e, id)

\* the request was answered with the records of all well-formed future events of the feed
C8_AllWellFormedReturned ==
    pc = "responded" /\ ret.ok =>
        \A i \in DOMAIN arg : WellFormedFutureEvent(arg[i]) => HasRecordOf(ret.val, arg[i])

\* C8: whatever the other events of the feed contain, the response holds the
\* record of every well-formed future event, and no event makes the request
\* abort.
C8_MalformedEventOnlySkipped ==
    /\ pc # "panicked"
    /\ C8_AllWellFormedReturned

(***************************************************************************)
(* Calls of get_ticket_link_from_description                                *)
(***************************************************************************)
TicketCall ==
    /\ pc = "call"
    /\ Return("get_ticket_link_from_description", get_ticket_link_from_description(arg))

\* the descriptions are made of labelled lines, platform URLs and a platform
\* URL that is not well formed
TicketSpec ==
    /\ InitCall(TextsOf(
           << <<"T", "i", "c", "k", "e", "t", " ", "l", "i", "n", "k", ":", " ", "h", "t", "t", "p", "s", ":", "/", "/", "t", ".", "j", "p", "/", "a">>, <<"t", "i", "c", "k", "e", "t", " ", "s", "i", "t", "e", ":", "h", "t", "t", "p", "s", ":", "/", "/", "w", "w", "w", ".", "t", ".", "j", "p", "/", "b">>,
              <<"h", "t", "t", "p", "s", ":", "/", "/", "w", "w", "w", ".", "z", "a", "n", "-", "l", "i", "v", "e", ".", "c", "o", "m", "/", "z">>, <<"h", "t", "t", "p", "s", ":", "/", "/", "v", "i", "r", "t", "u", "a", "l", ".", "s", "p", "w", "n", ".", "j", "p", "/", "s">>,
              <<"h", "t", "t", "p", "s", ":", "/", "/", "l", "i", "v", "e", ".", "n", "i", "c", "o", "v", "i", "d", "e", "o", ".", "j", "p", "/", "n">>, <<"nl">>, <<"h", "t", "t", "p", "s", ":", "/", "/", "z", "a", "n", "-", "l", "i", "v", "e", ".", "c", "o", "m", "@">>,
              <<"T", "i", "c", "k", "e", "t", " ", "l", "i", "n", "k", ":", " ">> >>,
           MaxPieces))
    /\ [][TicketCall]_vars

\* where pattern idx, matched from position i, ends (0 when it does not match
\* there), and where its URL starts
TicketPatternEnd(d, idx, i) ==
    IF idx = 0 THEN ticket_label_match_end(d, i)
    ELSE IF idx = 1 THEN zan_match_end(d, i)
    ELSE IF idx = 2 THEN spwn_match_end(d, i)
    ELSE nico_match_end(d, i)

TicketUrlStart(d, idx, i) == IF idx = 0 THEN ticket_label_end(d, i) ELSE i

\* the positions at which pattern idx matches
TicketOccurrences(d, idx) == {i \in DOMAIN d : TicketPatternEnd(d, idx, i) > 0}

TicketPatternsPresent(d) == {idx \in 0..3 : TicketOccurrences(d, idx) # {}}

\* the text of the URL in the first occurrence of the lowest-numbered pattern present
TicketChosenText(d) ==
    LET idx == Min(TicketPatternsPresent(d))
        i == Min(TicketOccurrences(d, idx))
    IN  SubSeq(d, TicketUrlStart(d, idx, i), TicketPatternEnd(d, idx, i) - 1)

\* C11: the lowest-numbered pattern that matches anywhere in the description
\* supplies the returned URL, from its first occurrence; the call fails when
\* no pattern matches.
C11_TicketPriorityAsStated ==
    pc = "get_ticket_link_from_description" =>
        IF TicketPatternsPresent(arg) = {} THEN ret = Err(TicketUrlParseFailed)
        ELSE /\ ret.ok
             /\ ret = url_parse(TicketChosenText(arg))

\* C11, amended: the first occurrence of the lowest-numbered pattern that
\* matches anywhere is the only candidate: its URL is returned when it is
\* well-formed and the call fails when it is not, whatever the other patterns
\* match; the call fails when no pattern matches.
C11_TicketPriority ==
    pc = "get_ticket_link_from_description" =>
        IF TicketPatternsPresent(arg) = {} THEN ret = Err(TicketUrlParseFailed)
        ELSE ret = url_parse(TicketChosenText(arg))

\* a platform URL stands before the labelled line in the text, and the
\* labelled line's URL is returned
C11_Witness ==
    /\ pc = "get_ticket_link_from_description"
    /\ 0 \in TicketPatternsPresent(arg)
    /\ \E idx \in TicketPatternsPresent(arg) \ {0} :
          Min(TicketOccurrences(arg, idx)) < Min(TicketOccurrences(arg, 0))
    /\ ret.ok
    /\ ret = url_parse(TicketChosenText(arg))
    /\ \A idx \in TicketPatternsPresent(arg) \ {0} :
          ret # url_parse(SubSeq(arg, Min(TicketOccurrences(arg, idx)),
                                 TicketPatternEnd(arg, idx, Min(TicketOccurrences(arg, idx))) - 1))

(***************************************************************************)
(* Calls of get_image_url_from_event and get_image_url_from_description     *)
(***************************************************************************)
ImageEventCall ==
    /\ pc = "call"
    /\ Return("get_image_url_from_event", get_image_url_from_event(arg))

ImageDescriptionCall ==
    /\ pc = "call"
    /\ arg.description # <<>>
    /\ Return("get_image_url_from_description", get_image_url_from_description(arg.description[1]))

\* the events carry an attachment or none, and a description or none; the
\* descriptions are made of "!Image:" lines (one with a URL that is not well
\* formed, one without the space), a line with another label, and text
ImageSpec ==
    /\ InitCall({Event(<<>>, <<>>, d, <<>>, a) :
           d \in {<<>>} \cup {<<t>> : t \in TextsOf(
               << <<"!", "I", "m", "a", "g", "e", ":", " ", "h", "t", "t", "p", "s", ":", "/", "/", "a", ".", "j", "p", "/", "i", ".", "p", "n", "g">>, <<"!", "P", "o", "s", "t", "e", "r", ":", " ", "h", "t", "t", "p", "s", ":", "/", "/", "c", ".", "j", "p", "/", "p", ".", "p", "n", "g">>,
                  <<"nl">>, <<"!", "I", "m", "a", "g", "e", ":", " ", "h", "t", "t", "p", "s", ":", "/", "/", "a", ":", "b", ".", "j", "p">>, <<"L", "i", "v", "e", " ">>, <<"!", "I", "m", "a", "g", "e", ":", "h", "t", "t", "p", "s", ":", "/", "/", "d", ".", "j", "p", "/", "x">> >>,
               MaxPieces)},
           a \in AttachOptions})
    /\ [][ImageEventCall \/ ImageDescriptionCall]_vars

\* C12: with an attachment the outcome is that of the attachment alone, its
\* URL when it is well formed and a failure when it is not, whatever the
\* description holds; without one the outcome is that of scanning the
\* sanitized description.
C12_AttachmentFirst ==
    pc = "get_image_url_from_event" =>
        IF arg.attach # <<>>
        THEN /\ ret = url_parse(arg.attach[1])
             /\ ret.ok <=> arg.attach[1] = <<"h", "t", "t", "p", "s", ":", "/", "/", "e", ".", "j", "p", "/", "p", "o", "s", "t", "e", "r", ".", "p", "n", "g">>
        ELSE IF arg.description = <<>> THEN ~ret.ok
        ELSE ret = get_image_url_from_description(
                       remove_form_link_from_description_and_trim(arg.description[1]))

\* a malformed attachment on an event whose description holds a valid image
\* line: the extraction has failed
C12_Witness ==
    /\ pc = "get_image_url_from_event"
    /\ arg.attach # <<>>
    /\ arg.description # <<>>
    /\ get_image_url_from_description(
           remove_form_link_from_description_and_trim(arg.description[1])).ok
    /\ ~ret.ok

\* the positions at which the "!Image:" pattern and the generic pattern match
ImageOccurrences(d) == {i \in DOMAIN d : first_try_match_end(d, i) > 0}

GenericOccurrences(d) == {i \in DOMAIN d : second_try_match_end(d, i) > 0}

ImageText(d, i) == SubSeq(d, first_try_label_end(d, i), first_try_match_end(d, i) - 1)

GenericText(d, i) == SubSeq(d, second_try_label_end(d, i), second_try_match_end(d, i) - 1)

\* C13: a description with an "!Image:" line gives that line's URL, wherever
\* lines with other labels stand; without one, the first match of the generic
\* pattern gives the URL; with neither the call fails.
C13_ImageLabelPreferredAsStated ==
    pc = "get_image_url_from_description" =>
        LET d == arg.description[1]
        IN  IF ImageOccurrences(d) # {}
            THEN /\ ret.ok
                 /\ \E i \in ImageOccurrences(d) : ret = url_parse(ImageText(d, i))
            ELSE IF GenericOccurrences(d) # {}
            THEN /\ ret.ok
                 /\ ret = url_parse(GenericText(d, Min(GenericOccurrences(d))))
            ELSE ret = Err(ImageUrlParseFailed)

\* C13, amended: the first match of the "!Image:" pattern, when there is one,
\* is the only candidate, wherever lines with other labels stand; otherwise
\* the first match of the generic pattern is; the candidate's URL is returned
\* when it is well formed and the call fails when it is not; with no match of
\* either pattern the call fails.
C13_ImageLabelPreferred ==
    pc = "get_image_url_from_description" =>
        LET d == arg.description[1]
        IN  IF ImageOccurrences(d) # {}
            THEN ret = url_parse(ImageText(d, Min(ImageOccurrences(d))))
            ELSE IF GenericOccurrences(d) # {}
            THEN ret = url_parse(GenericText(d, Min(GenericOccurrences(d))))
            ELSE ret = Err(ImageUrlParseFailed)

\* a line with another label stands before the "!Image:" line, and the URL of
\* the "!Image:" line is returned
C13_Witness ==
    /\ pc = "get_image_url_from_description"
    /\ ImageOccurrences(arg.description[1]) # {}
    /\ Min(GenericOccurrences(arg.description[1])) < Min(ImageOccurrences(arg.description[1]))
    /\ ret.ok
    /\ ret = url_parse(ImageText(arg.description[1], Min(ImageOccurrences(arg.description[1]))))
    /\ ret # url_parse(GenericText(arg.description[1], Min(GenericOccurrences(arg.description[1]))))

(***************************************************************************)
(* C14: the amounts and the two kinds of price failure.                     *)
(***************************************************************************)
\* the token has the shape of a fixed or multi-tier price and names no other rule
HasAmountShape(tok) ==
    /\ ~MentionsTbaOrTbd(tok)
    /\ ~MentionsFree(tok)
    /\ IsSymbolDigits(tok) \/ IsSymbolDigitsPlus(tok)

DigitRunOf(tok) ==
    IF IsSymbolDigits(tok) THEN DigitsOfSymbolDigits(tok) ELSE DigitsOfSymbolDigitsPlus(tok)

\* every amount returned is the non-negative decimal value of the token's
\* digit run, and a digit run that does not fit the amount type makes the call fail
C14_AmountsExact ==
    pc = "get_price_from_string" =>
        /\ ret.ok /\ ret.val.tag \in {"Fixed", "MultiTier"} =>
              /\ HasAmountShape(arg)
              /\ ret.val.amount >= 0
              /\ ret.val.amount = DecimalValue(DigitRunOf(arg))
        /\ HasAmountShape(arg) /\ ~FitsI32(DigitRunOf(arg)) => ~ret.ok

\* the failure returned for a token of no recognized format
UnrecognizedFormatFailure == get_price_from_string(<<"x">>)

\* C14: amounts are exact and never wrapped, and the failure of a token of
\* the right shape whose digit run cannot be parsed differs from the failure
\* returned for an unrecognized price format.
C14_AmountsAndFailureKinds ==
    /\ C14_AmountsExact
    /\ pc = "get_price_from_string" /\ HasAmountShape(arg) /\ ~ret.ok =>
          ret # UnrecognizedFormatFailure

(***************************************************************************)
(* C15: the filter and the resolver read the start time differently, yet    *)
(* every record returned starts after the request.                          *)
(***************************************************************************)
StartKindAt(i) == IF arg[i].start = <<>> THEN "none" ELSE arg[i].start[1].kind

\* C15: every record the index handler collects and returns has a start
\* instant strictly later than the time of the request, whatever the shape
\* of the event's start time.
C15_ReturnedStartsAfterRequest ==
    /\ \A j \in DOMAIN all_lives : all_lives[j].start_time > requested_at
    /\ pc = "responded" /\ ret.ok =>
          \A j \in DOMAIN ret.val : ret.val[j].start_time > requested_at

\* C15 witness: a response sent after time has passed that holds the records
\* of a date-only event and of a floating-time event
C15_Witness ==
    /\ pc = "responded"
    /\ ret.ok
    /\ now > requested_at
    /\ Len(arg) = 2
    /\ StartKindAt(1) = "Date"
    /\ StartKindAt(2) = "Floating"
    /\ Len(ret.val) = 2
    /\ ret.val[1].start_time = arg[1].start[1].value * HoursPerDay
    /\ ret.val[2].start_time = arg[2].start[1].value

====
